---- MODULE Spec2Model ----
(***************************************************************************)
(* Model of the ambianic-edge detection pipeline element:                  *)
(*   src/ambianic/pipeline/inference.py  (load_labels, AiInference)        *)
(*   src/ambianic/cameras/detect.py      (load_labels, the same text)      *)
(* The base class PipeElement (ambianic/pipeline/__init__.py) is not among *)
(* the sources; its two members used here (next_element, set_next) are     *)
(* modelled from the specification, section 4.1.                           *)
(* inference_callback of detect.py (lines 94-105) repeats lines 41-52 of   *)
(* receive_next_sample on a closure variable; it has no state machine of   *)
(* its own here.                                                           *)
(*                                                                         *)
(* Representation.  Text is a sequence of one-character strings.  Clock    *)
(* readings of time.monotonic() are whole seconds.  The two "%.2f" fields  *)
(* of the diagnostic text are kept as the number of hundredths printed.    *)
(* confidence_threshold is kept in hundredths (0.6 is 60).                 *)
(***************************************************************************)
EXTENDS Integers, Sequences, FiniteSets, TLC

VARIABLES
    fs,         \* the file system: path -> lines of the file (existing files only)
    stages,     \* the AiInference instances constructed so far, by name
    ctor,       \* what the most recent AiInference(...) call did
    loaded,     \* result of the most recent direct load_labels(path) call
    clock,      \* the latest reading of time.monotonic()
    stack,      \* the Python call stack of receive_next_sample frames
    exc,        \* the exception travelling up the stack, or None
    delivered,  \* number of samples the caller has delivered so far
    outcome,    \* how the most recent top-level call ended, as its caller saw it
    lastEnd     \* per stage: the latest timestamp it took at line 35 or line 47

vars == <<fs, stages, ctor, loaded, clock, stack, exc, delivered, outcome, lastEnd>>

---------------------------------------------------------------------------
(* Bounds of the model *)

NumStages == 2
MaxFrames == 2
MaxTime == 2
MaxStep == 1
RecursionLimit == 2
MaxLines == 3

(* Program constants *)

DefaultThreshold == 60
TopK == 3

None == "None"
StageNames == <<"A", "B", "C", "D">>
\* the slots an AiInference instance can occupy
Stages == {StageNames[i] : i \in 1..NumStages}

---------------------------------------------------------------------------
(* Text *)

IsSpace(c) == c = " "
IsDigit(c) == c \in {"0", "1", "2"}

DigitVal(c) == CASE c = "0" -> 0 [] c = "1" -> 1 [] c = "2" -> 2 [] OTHER -> 0

RECURSIVE ToInt(_)
\* int(num) for a string of decimal digits
ToInt(s) ==
    IF s = <<>> THEN 0
    ELSE 10 * ToInt(SubSeq(s, 1, Len(s) - 1)) + DigitVal(s[Len(s)])

RECURSIVE LStrip(_)
LStrip(s) == IF s # <<>> /\ IsSpace(Head(s)) THEN LStrip(Tail(s)) ELSE s

RECURSIVE RStrip(_)
RStrip(s) ==
    IF s # <<>> /\ IsSpace(s[Len(s)]) THEN RStrip(SubSeq(s, 1, Len(s) - 1)) ELSE s

\* str.strip()
Strip(s) == RStrip(LStrip(s))

RECURSIVE SpanLen(_, _)
\* length of the longest prefix of s whose characters all satisfy the class
\* cls ("space" or "digit"): what a greedy \s* or \d+ consumes
SpanLen(s, cls) ==
    IF s = <<>> THEN 0
    ELSE IF (cls = "space" /\ IsSpace(Head(s))) \/ (cls = "digit" /\ IsDigit(Head(s)))
         THEN 1 + SpanLen(Tail(s), cls)
         ELSE 0

\* p.match(line) for p = re.compile(r'\s*(\d+)(.+)'): the groups <<num, text>>,
\* or None.  \s* and \d+ are greedy; when nothing is left for (.+), \d+ gives
\* back its last digit.  The line is given without its newline, which '.'
\* never matches.
Match(line) ==
    LET i == SpanLen(line, "space")
        afterSpace == SubSeq(line, i + 1, Len(line))
        j == SpanLen(afterSpace, "digit")
        rest == SubSeq(afterSpace, j + 1, Len(afterSpace))
    IN  IF j = 0 THEN None
        ELSE IF rest # <<>> THEN <<SubSeq(afterSpace, 1, j), rest>>
        ELSE IF j >= 2 THEN <<SubSeq(afterSpace, 1, j - 1), SubSeq(afterSpace, j, j)>>
        ELSE None

ParseFailure == "AttributeError"

\* how a call ends: with a value, or with an exception
Returned(v) == [raised |-> None, value |-> v]
Raised(e) == [raised |-> e, value |-> <<>>]

RECURSIVE LabelDict(_)
\* {int(num): text.strip() for num, text in lines}: a later line with the
\* same number replaces an earlier one
LabelDict(lines) ==
    IF lines = <<>> THEN <<>>
    ELSE LET before == LabelDict(SubSeq(lines, 1, Len(lines) - 1))
             g == Match(lines[Len(lines)])
             k == ToInt(g[1])
         IN  [n \in (DOMAIN before) \cup {k} |->
                 IF n = k THEN Strip(g[2]) ELSE before[n]]

\* A variant that loads what it can: lines that do not match are skipped.
load_labels_skipping(lines) ==
    Returned(LabelDict(SelectSeq(lines, LAMBDA l : Match(l) # None)))

\* load_labels(path), given the lines of the file: p.match(line).groups()
\* raises AttributeError on the first line that does not match, and the
\* dictionary under construction is dropped.
load_labels(lines) ==
    IF \E i \in 1..Len(lines) : Match(lines[i]) = None
    THEN Raised(ParseFailure)
    ELSE Returned(LabelDict(lines))

---------------------------------------------------------------------------
(* Configuration and files *)

ModelFile == "model.tflite"
LabelsFile == "labels.txt"
BadLabelsFile == "bad.txt"

\* "1 a" / "12 b": a well-formed labels file
GoodLabels == << <<"1", " ", "a">>, <<"1", "2", " ", "b">> >>
\* second line "b 2": no leading number
BadLabels == << <<"1", " ", "a">>, <<"b", " ", "2">> >>

BaseFs == [p \in {ModelFile, LabelsFile, BadLabelsFile} |->
              CASE p = ModelFile -> <<>>
                [] p = LabelsFile -> GoodLabels
                [] p = BadLabelsFile -> BadLabels]

\* os.path.isfile(path) for a str path
isfile(path) == path \in DOMAIN fs

\* dict.get(key, default)
Get(d, key, default) == IF key \in DOMAIN d THEN d[key] ELSE default

Keys == {"model", "labels", "confidence_threshold", "top_k"}

ValuesOf(k) ==
    CASE k = "model" -> {"", "missing.tflite", ModelFile}
      [] k = "labels" -> {"missing.txt", LabelsFile, BadLabelsFile}
      [] k = "confidence_threshold" -> {80}
      [] k = "top_k" -> {5}

\* key k absent, or present with one of its values
Entry(k) == {<<>>} \cup {k :> v : v \in ValuesOf(k)}

Dicts ==
    {m @@ l @@ c @@ t : m \in Entry("model"), l \in Entry("labels"),
                        c \in Entry("confidence_threshold"), t \in Entry("top_k")}

\* the element_config arguments tried: the default None (given = FALSE), and
\* every dict over a subset of Keys
Configs == {[given |-> FALSE, d |-> <<>>]} \cup {[given |-> TRUE, d |-> d] : d \in Dicts}

ValidConfig == [given |-> TRUE, d |-> [model |-> ModelFile, labels |-> LabelsFile]]

---------------------------------------------------------------------------
(* The clock *)

\* the values time.monotonic() may return next: never less than the latest
\* reading, possibly equal to it (the clock has a finite resolution)
Readings(now) == {t \in now..(now + MaxStep) : t <= MaxTime}

---------------------------------------------------------------------------
(* AiInference.__init__ *)

\* The steps of __init__ in order, as the first one that raises; "ok" if none.
InitResult(cfg) ==
    IF ~cfg.given THEN "AttributeError:config"          \* line 27: None.get
    ELSE LET model == Get(cfg.d, "model", None)
             labels == Get(cfg.d, "labels", None)
         IN  IF model = None \/ model = "" THEN "AssertionError:model"        \* line 28
             ELSE IF ~isfile(model) THEN "AssertionError:model file"          \* line 29
             ELSE IF labels = None THEN "TypeError:isfile"                    \* line 31: os.path.isfile(None)
             ELSE IF ~isfile(labels) THEN "AssertionError:labels file"        \* line 31
             ELSE IF load_labels(fs[labels]).raised # None
                  THEN load_labels(fs[labels]).raised                         \* line 34
             ELSE "ok"

\* whether DetectionEngine(model) (line 33) was reached
EngineLoaded(result) == result \in {"ok", ParseFailure}

\* the instance after a successful __init__ that read the clock as t
NewStage(cfg, t) ==
    [config |-> cfg,
     engine |-> cfg.d["model"],
     labels |-> load_labels(fs[cfg.d["labels"]]).value,
     last_time |-> t,
     confidence_threshold |-> Get(cfg.d, "confidence_threshold", DefaultThreshold),
     next_element |-> None]

Idle == stack = <<>> /\ exc = None

\* The pipeline is assembled (stages constructed and wired) before the first
\* sample is delivered.
Assembling == Idle /\ delivered = 0

Constructed == DOMAIN stages

\* the name the next new instance gets: names are handed out in order
NextName(s) ==
    \E i \in 1..NumStages :
        /\ s = StageNames[i]
        /\ Constructed = {StageNames[j] : j \in 1..(i - 1)}

Construct(s, cfg) ==
    /\ Assembling
    /\ NextName(s)
    /\ LET r == InitResult(cfg) IN
        IF r = "ok"
        THEN \E t \in Readings(clock) :
                /\ clock' = t
                /\ stages' = [x \in Constructed \cup {s} |->
                                 IF x = s THEN NewStage(cfg, t) ELSE stages[x]]
                /\ lastEnd' = [lastEnd EXCEPT ![s] = t]
                /\ ctor' = [config |-> cfg, result |-> r, produced |-> TRUE,
                            engine_loaded |-> TRUE, labels_loaded |-> TRUE]
        ELSE /\ ctor' = [config |-> cfg, result |-> r, produced |-> FALSE,
                         engine_loaded |-> EngineLoaded(r), labels_loaded |-> FALSE]
             /\ UNCHANGED <<clock, stages, lastEnd>>
    /\ UNCHANGED <<fs, loaded, stack, exc, delivered, outcome>>

\* load_labels(args.labels) called directly (detect.py, line 90)
LoadLabels(path) ==
    /\ Idle
    /\ isfile(path)
    /\ loaded' = [path |-> path, result |-> load_labels(fs[path])]
    /\ UNCHANGED <<fs, stages, ctor, clock, stack, exc, delivered, outcome, lastEnd>>

---------------------------------------------------------------------------
(* PipeElement *)

\* PipeElement.set_next(element): stores the reference; nothing is checked
SetNext(s, t) ==
    /\ Assembling
    /\ s \in Constructed /\ t \in Constructed
    /\ stages' = [stages EXCEPT ![s].next_element = t]
    /\ UNCHANGED <<fs, ctor, loaded, clock, stack, exc, delivered, outcome, lastEnd>>

---------------------------------------------------------------------------
(* AiInference.receive_next_sample *)

Images == {"img"}
\* what the engine may return for a sample
Detections == {"objsX", "objsY"}

ImageSample(i) == [kind |-> "image", image |-> i]

\* A variant that forwards the list without the engine's detections.
OutputWithoutObjs(objs, labels, text_lines) ==
    [kind |-> "detections", objs |-> None, labels |-> labels, text |-> text_lines]

\* [objs, self.labels, text_lines]
Output(objs, labels, text_lines) ==
    [kind |-> "detections", objs |-> objs, labels |-> labels, text |-> text_lines]

\* the arguments of engine.DetectWithImage (lines 43-45)
DetectArgs(self, image) ==
    [image |-> image,
     threshold |-> self.confidence_threshold,
     keep_aspect_ratio |-> TRUE,
     relative_coord |-> TRUE,
     top_k |-> TopK]

\* n/d rounded to the nearest integer, ties to even
RoundHalfEven(n, d) ==
    LET q == n \div d
        r == n % d
    IN  IF 2 * r < d THEN q
        ELSE IF 2 * r > d THEN q + 1
        ELSE IF q % 2 = 0 THEN q ELSE q + 1

\* '%.2f' % (n/d), as the number of hundredths printed
Fmt2(n, d) == RoundHalfEven(100 * n, d)

\* inf_time = (end_time - start_time) * 1000
InfTime(start_time, end_time) == (end_time - start_time) * 1000

\* the divisor of fps = 1.0/(end_time - self.last_time)
FpsDivisor(self, end_time) == end_time - self.last_time

\* inf_info % (inf_time, fps)
TextLines(inf_time, divisor) ==
    [inference |-> Fmt2(inf_time, 1), fps |-> Fmt2(1, divisor)]

\* A variant that leaves self.last_time as it was.
NextLastTimeStale(self, end_time) == self.last_time

\* the value self.last_time gets at line 52
NextLastTime(self, end_time) == end_time

\* the element receive_next_sample forwards to (lines 55-56), or None
Callee(self) == self.next_element

NoText == [inference |-> 0, fps |-> 0]

\* The frame of a call on stage s after lines 40-45: the start time is read
\* and the engine is invoked with args; the frame waits for the engine.
\*   detects, sent: engine invocations and downstream calls made so far
\*   engine_call: how the engine call ended ("pending" until it does)
\*   delivery: the caller's delivery this call belongs to
\*   prev_end: the timestamp the stage took last before this call's end_time
NewFrame(s, sample, t, n) ==
    [stage |-> s, sample |-> sample, start_time |-> t, pc |-> "detect",
     args |-> DetectArgs(stages[s], sample), detects |-> 1, engine_call |-> "pending",
     objs |-> None, end_time |-> t, prev_end |-> t, text_lines |-> NoText,
     sent |-> 0, delivery |-> n]

Top == stack[Len(stack)]
SetTop(f) == [stack EXCEPT ![Len(stack)] = f]

\* the caller hands a camera image to stage s
Deliver(s, image) ==
    /\ Idle
    /\ s \in Constructed
    /\ delivered < MaxFrames
    /\ \E t \in Readings(clock) :
        /\ clock' = t
        /\ stack' = <<NewFrame(s, ImageSample(image), t, delivered + 1)>>
    /\ delivered' = delivered + 1
    /\ outcome' = [delivery |-> delivered + 1, entry |-> s, result |-> "running"]
    /\ UNCHANGED <<fs, stages, ctor, loaded, exc, lastEnd>>

\* A variant that catches the exception and goes on without detections.
AfterEngineRaiseCaught(frame) ==
    [exc |-> None, frame |-> [frame EXCEPT !.pc = "forward"]]

\* what follows when the engine call raises: nothing catches the exception
AfterEngineRaise(frame) == [exc |-> "EngineInvocationError", frame |-> frame]

\* A variant that has stored the start time in last_time before the call.
StageAtRaiseTouched(self, frame) == [self EXCEPT !.last_time = frame.start_time]

\* the instance when the engine call raises: lines 40-43 assign locals only
StageAtRaise(self, frame) == self

\* engine.DetectWithImage raises
EngineRaises ==
    /\ stack # <<>> /\ exc = None /\ Top.pc = "detect"
    /\ LET a == AfterEngineRaise([Top EXCEPT !.engine_call = "raised"]) IN
        /\ exc' = a.exc
        /\ stack' = SetTop(a.frame)
    /\ stages' = [stages EXCEPT ![Top.stage] = StageAtRaise(@, Top)]
    /\ UNCHANGED <<fs, ctor, loaded, clock, delivered, outcome, lastEnd>>

\* engine.DetectWithImage returns objs; lines 46-53
EngineReturns(objs) ==
    /\ stack # <<>> /\ exc = None /\ Top.pc = "detect"
    /\ \E t \in Readings(clock) :
        LET s == Top.stage
            self == stages[s]
            divisor == FpsDivisor(self, t)
            f == [Top EXCEPT !.engine_call = "returned", !.objs = objs, !.end_time = t,
                             !.prev_end = lastEnd[s]]
        IN
        /\ clock' = t
        /\ lastEnd' = [lastEnd EXCEPT ![s] = t]
        /\ IF divisor = 0
           THEN /\ exc' = "ZeroDivisionError"           \* line 49
                /\ stack' = SetTop([f EXCEPT !.pc = "fps"])
                /\ UNCHANGED stages
           ELSE /\ stages' = [stages EXCEPT ![s].last_time = NextLastTime(self, t)]
                /\ stack' = SetTop([f EXCEPT
                       !.pc = "forward",
                       !.text_lines = TextLines(InfTime(Top.start_time, t), divisor)])
                /\ exc' = None
    /\ UNCHANGED <<fs, ctor, loaded, delivered, outcome>>

\* the caller's frame while the call of line 56 runs
Suspended(frame) == [frame EXCEPT !.pc = "call", !.sent = @ + 1]

Pop == SubSeq(stack, 1, Len(stack) - 1)

\* A variant in which the caller does not wait: its frame is gone when the
\* next element starts.
CallDetached(f) == Append(Pop, f)

\* the stack after the top frame has called receive_next_sample of the next
\* element (frame f)
Call(f) == Append(SetTop(Suspended(Top)), f)

\* lines 55-56 with a next element: its receive_next_sample is called with
\* [objs, self.labels, text_lines]; the interpreter refuses a call that
\* exceeds the recursion limit
Forward ==
    /\ stack # <<>> /\ exc = None /\ Top.pc = "forward"
    /\ Callee(stages[Top.stage]) # None
    /\ IF Len(stack) >= RecursionLimit
       THEN /\ exc' = "RecursionError"
            /\ UNCHANGED <<clock, stack>>
       ELSE \E t \in Readings(clock) :
            /\ clock' = t
            /\ stack' = Call(NewFrame(Callee(stages[Top.stage]),
                                      Output(Top.objs, stages[Top.stage].labels,
                                             Top.text_lines),
                                      t, Top.delivery))
            /\ exc' = None
    /\ UNCHANGED <<fs, stages, ctor, loaded, delivered, outcome, lastEnd>>

\* A variant that may return from line 55 whether or not there is a next
\* element.
CanReturnUnforwarded(frame) == frame.pc \in {"forward", "call"}

\* the frame on top has nothing left to do: no next element (line 55), or the
\* call of line 56 has returned
CanReturn(frame) ==
    \/ frame.pc = "forward" /\ Callee(stages[frame.stage]) = None
    \/ frame.pc = "call"

Return ==
    /\ stack # <<>> /\ exc = None /\ CanReturn(Top)
    /\ stack' = Pop
    /\ outcome' = IF Len(stack) = 1 THEN [outcome EXCEPT !.result = "returned"]
                  ELSE outcome
    /\ UNCHANGED <<fs, stages, ctor, loaded, clock, exc, delivered, lastEnd>>

\* an exception leaves the frame on top: receive_next_sample has no handler
Propagate ==
    /\ stack # <<>> /\ exc # None
    /\ stack' = Pop
    /\ outcome' = IF Len(stack) = 1 THEN [outcome EXCEPT !.result = exc] ELSE outcome
    /\ exc' = IF Len(stack) = 1 THEN None ELSE exc
    /\ UNCHANGED <<fs, stages, ctor, loaded, clock, delivered, lastEnd>>

---------------------------------------------------------------------------
(* Specifications *)

NoCtor == [config |-> [given |-> FALSE, d |-> <<>>], result |-> "none",
           produced |-> FALSE, engine_loaded |-> FALSE, labels_loaded |-> FALSE]

NoLoad == [path |-> None, result |-> Raised("none")]

InitWith(files) ==
    /\ fs = files
    /\ stages = <<>>
    /\ ctor = NoCtor
    /\ loaded = NoLoad
    /\ clock = 0
    /\ stack = <<>>
    /\ exc = None
    /\ delivered = 0
    /\ outcome = [delivery |-> 0, entry |-> None, result |-> "none"]
    /\ lastEnd = [s \in Stages |-> 0]

Running ==
    \/ EngineRaises
    \/ \E objs \in Detections : EngineReturns(objs)
    \/ Return
    \/ Propagate

\* A pipeline of stages built from a valid configuration, wired in any way
\* and fed samples one at a time.
Init == InitWith(BaseFs)

Next ==
    \/ \E s \in Stages : Construct(s, ValidConfig)
    \/ \E s, t \in Stages : SetNext(s, t)
    \/ \E s \in Stages, i \in Images : Deliver(s, i)
    \/ Forward
    \/ Running

Spec == Init /\ [][Next]_vars

\* One stage built from any configuration, then fed samples.
NextConfig ==
    \/ \E cfg \in Configs : Construct("A", cfg)
    \/ \E i \in Images : Deliver("A", i)
    \/ Running

SpecConfig == Init /\ [][NextConfig]_vars

\* The labels file holds any lines; it is loaded directly and by a
\* constructor call with an otherwise valid configuration.
SampleLines ==
    { <<"1", " ", "a">>,        \* "1 a"
      <<"1", "2", " ", "b">>,   \* "12 b"
      <<" ", "1", " ", "a">>,   \* " 1 a"
      <<"1", "a">>,             \* "1a"
      <<"1", "2">>,             \* "12"
      <<"1", " ">>,             \* "1 "
      <<"1">>,                  \* "1"
      <<"a", " ", "1">>,        \* "a 1"
      <<" ">>,                  \* " "
      <<>> }                    \* ""

Files == UNION {[1..n -> SampleLines] : n \in 0..MaxLines}

InitLabels == \E file \in Files : InitWith([BaseFs EXCEPT ![LabelsFile] = file])

NextLabels ==
    \/ Construct("A", ValidConfig)
    \/ LoadLabels(LabelsFile)

SpecLabels == InitLabels /\ [][NextLabels]_vars

---------------------------------------------------------------------------
(* Claims about the labels file (SpecLabels) *)

LabelLines == fs[LabelsFile]

\* the language of \d+\s+.+ matched from the start of the line: digits, then
\* whitespace, then at least one more character
MatchesDigitsSpaceText(line) ==
    \E j \in 1..Len(line), k \in 1..Len(line) :
        /\ j < k /\ k < Len(line)
        /\ \A m \in 1..j : IsDigit(line[m])
        /\ \A m \in (j + 1)..k : IsSpace(line[m])

\* the language of \s*\d+.+ matched from the start of the line: optional
\* whitespace, then digits, then at least one more character of any kind
MatchesSpaceDigitsText(line) ==
    \E i \in 0..Len(line), j \in 1..Len(line) :
        /\ i < j /\ j < Len(line)
        /\ \A m \in 1..i : IsSpace(line[m])
        /\ \A m \in (i + 1)..j : IsDigit(line[m])

DirectLoadFailed == loaded.path # None => loaded.result = Raised(ParseFailure)

ConstructionFailedOnLabels ==
    ctor.result # "none" =>
        /\ ctor.result = ParseFailure
        /\ ~ctor.produced /\ ~ctor.labels_loaded
        /\ stages = <<>>

\* C6 as stated: if some line of the labels file, at any position, does not
\* match <integer id><whitespace><free-text label>, then load_labels fails,
\* and so does the construction of a stage from that file.
C6_AsStated ==
    (\E i \in 1..Len(LabelLines) : ~MatchesDigitsSpaceText(LabelLines[i])) =>
        DirectLoadFailed /\ ConstructionFailedOnLabels

\* C6 amended: if some line of the labels file, at any position, does not
\* match \s*\d+.+ (optional whitespace, an integer, at least one more
\* character), then load_labels raises and returns no mapping, and the
\* construction of a stage from that file fails: no stage is produced and no
\* mapping is stored.
C6_MalformedLineFailsLoad ==
    (\E i \in 1..Len(LabelLines) : ~MatchesSpaceDigitsText(LabelLines[i])) =>
        DirectLoadFailed /\ ConstructionFailedOnLabels

\* a three-line file whose middle line alone is malformed has been loaded
\* directly and by a constructor call, and both failed
C6_Witness ==
    /\ Len(LabelLines) = 3
    /\ MatchesSpaceDigitsText(LabelLines[1])
    /\ ~MatchesSpaceDigitsText(LabelLines[2])
    /\ MatchesSpaceDigitsText(LabelLines[3])
    /\ loaded.path = LabelsFile /\ loaded.result.raised = ParseFailure
    /\ ctor.result = ParseFailure

---------------------------------------------------------------------------
(* Claims about the configuration (SpecConfig) *)

\* the error kinds of the specification, section 7, for the assertions of
\* lines 28, 29 and 31; any other exception is named as Python names it
ErrorKind(result) ==
    CASE result = "AssertionError:model" -> "ConfigurationError"
      [] result = "AssertionError:model file" -> "MissingFileError"
      [] result = "AssertionError:labels file" -> "MissingFileError"
      [] OTHER -> result

NothingBuilt == ~ctor.produced /\ ~ctor.engine_loaded /\ ~ctor.labels_loaded

\* C5: a constructor call with a dict fails with ConfigurationError when the
\* model path is missing or empty, and with MissingFileError when the model
\* path or the labels path names no existing file, an absent labels path
\* included; in each case nothing is built.
C5_FailFast ==
    (ctor.result # "none" /\ ctor.config.given) =>
        LET model == Get(ctor.config.d, "model", None)
            labels == Get(ctor.config.d, "labels", None)
        IN  /\ (model = None \/ model = "") =>
                ErrorKind(ctor.result) = "ConfigurationError" /\ NothingBuilt
            /\ (model # None /\ model # "" /\
                (~isfile(model) \/ labels = None \/ ~isfile(labels))) =>
                ErrorKind(ctor.result) = "MissingFileError" /\ NothingBuilt

\* C7: every receive_next_sample call has invoked the engine exactly once,
\* with the received sample, the configured confidence_threshold (0.6 by
\* default), keep_aspect_ratio and relative_coord true, and the configured
\* top_k (3 by default).
C7_DetectArguments ==
    \A i \in 1..Len(stack) :
        LET f == stack[i]
            d == stages[f.stage].config.d
        IN  /\ f.detects = 1
            /\ f.args = [image |-> f.sample,
                         threshold |-> Get(d, "confidence_threshold", DefaultThreshold),
                         keep_aspect_ratio |-> TRUE,
                         relative_coord |-> TRUE,
                         top_k |-> Get(d, "top_k", TopK)]

---------------------------------------------------------------------------
(* Claims about a pipeline in operation (Spec) *)

Frames == {stack[i] : i \in 1..Len(stack)}

\* the sample a frame has produced, as line 56 builds it from the frame's
\* locals and the stage's label mapping
Produced(f) ==
    [kind |-> "detections", objs |-> f.objs, labels |-> stages[f.stage].labels,
     text |-> f.text_lines]

\* every frame below the top is inside its one call of line 56, and the
\* frame above it is that call: on the next element, with the produced sample
ForwardedOnce ==
    \A i \in 1..(Len(stack) - 1) :
        /\ stack[i].pc = "call" /\ stack[i].sent = 1
        /\ stack[i].engine_call = "returned"
        /\ stack[i].objs \in Detections
        /\ stack[i + 1].stage = stages[stack[i].stage].next_element
        /\ stack[i + 1].sample = Produced(stack[i])

\* a frame that has not reached line 56 has called nothing downstream
NothingSentEarly ==
    \A f \in Frames : f.pc # "call" => f.sent = 0

\* a call that returns has forwarded once if the stage has a next element
\* and not at all if it has none
ReturnsAfterForwarding ==
    (exc = None /\ stack # <<>> /\ Len(stack') = Len(stack) - 1) =>
        /\ Top.engine_call = "returned"
        /\ Top.sent = (IF stages[Top.stage].next_element = None THEN 0 ELSE 1)

\* a stage without a next element that has produced its output returns next,
\* without raising
SinkCompletes ==
    (stack # <<>> /\ Top.pc = "forward" /\ stages[Top.stage].next_element = None) =>
        exc = None /\ ENABLED Return /\ ~ENABLED Forward

\* C1: a receive_next_sample call that completes on a stage with a next
\* element has called the next element's receive_next_sample exactly once,
\* with [the engine's detections, the stage's labels, the diagnostic text];
\* on a stage without a next element it forwards nothing and completes
\* without failure.
C1_ChainForwarding ==
    /\ [](ForwardedOnce /\ NothingSentEarly /\ SinkCompletes)
    /\ [][ReturnsAfterForwarding]_vars

\* stage A has forwarded to stage B, which has no next element and has
\* produced its own output
C1_Witness ==
    /\ Len(stack) = 2
    /\ stack[1].stage = "A" /\ stack[2].stage = "B"
    /\ stack[1].objs = "objsY"
    /\ stack[2].pc = "forward"
    /\ stages["B"].next_element = None

---------------------------------------------------------------------------

\* the frame whose engine call raised is on top, the exception is in flight,
\* the engine was invoked once and nothing was forwarded
RaisedFrameIsTop ==
    \A i \in 1..Len(stack) :
        stack[i].engine_call = "raised" =>
            /\ i = Len(stack)
            /\ exc = "EngineInvocationError"
            /\ stack[i].detects = 1 /\ stack[i].sent = 0

\* the exception leaves one frame after the other, unchanged, until the
\* caller of the outermost call sees it; no new call is made meanwhile
PropagatesUnchanged ==
    exc = "EngineInvocationError" =>
        /\ stack' = Pop
        /\ IF Len(stack) = 1
           THEN outcome'.result = "EngineInvocationError" /\ exc' = None
           ELSE exc' = exc /\ outcome' = outcome

\* C2: when the engine call raises, the stage does not catch it: the same
\* failure reaches the direct caller (and every caller above), the engine is
\* not invoked again, and no downstream stage is invoked for that sample.
C2_EngineFailurePropagates ==
    /\ []RaisedFrameIsTop
    /\ [][PropagatesUnchanged]_vars

\* the engine call of stage A, which has a next element, has just raised
C2_Witness ==
    /\ Len(stack) = 1
    /\ Top.stage = "A" /\ Top.engine_call = "raised"
    /\ stages["A"].next_element = "B"
    /\ exc = "EngineInvocationError"

---------------------------------------------------------------------------

\* every frame on the stack belongs to the delivery in progress
OneDeliveryAtATime ==
    /\ \A f \in Frames : f.delivery = delivered
    /\ stack # <<>> => outcome.delivery = delivered /\ outcome.result = "running"
    /\ stack = <<>> => outcome.result # "running"

SameCall(f, g) ==
    /\ f.stage = g.stage /\ f.sample = g.sample
    /\ f.start_time = g.start_time /\ f.delivery = g.delivery

\* a call stays on the stack, beneath the calls it makes, until it returns
\* or raises; only the call on top ends; a delivery begins only when the
\* stack is empty, and deliveries are numbered in order
Nested ==
    /\ Len(stack') > Len(stack) =>
          /\ Len(stack') = Len(stack) + 1
          /\ \A i \in 1..Len(stack) : SameCall(stack'[i], stack[i])
    /\ Len(stack') < Len(stack) => stack' = Pop
    /\ (Len(stack') = Len(stack) /\ stack # <<>>) =>
          \A i \in 1..Len(stack) : SameCall(stack'[i], stack[i])
    /\ delivered' # delivered =>
          /\ stack = <<>> /\ exc = None
          /\ delivered' = delivered + 1
          /\ Len(stack') = 1 /\ stack'[1].delivery = delivered'

\* C3: the downstream call is made and has returned or raised before the
\* upstream call returns; with samples delivered one at a time, every
\* stage's work on delivery N is over before any stage starts on N+1, and
\* each stage sees the deliveries in order.
C3_SynchronousOrdering ==
    /\ [](ForwardedOnce /\ OneDeliveryAtATime)
    /\ [][Nested]_vars

\* the second delivery is two stages deep
C3_Witness ==
    /\ delivered = 2
    /\ Len(stack) = 2
    /\ stack[1].pc = "call" /\ stack[2].pc = "forward"

---------------------------------------------------------------------------

\* h hundredths is n/d to the nearest hundredth
Nearest(h, n, d) == 2 * (IF 100 * n >= h * d THEN 100 * n - h * d ELSE h * d - 100 * n) <= d

\* a frame past line 53 holds the text computed from its own start and end
\* timestamps and from the end timestamp before its own
TimingOf(f) ==
    /\ f.prev_end < f.end_time
    /\ Nearest(f.text_lines.fps, 1, f.end_time - f.prev_end)
    /\ f.text_lines.inference = 100 * 1000 * (f.end_time - f.start_time)

\* C4: last_time is the end timestamp of the stage's most recent invocation
\* that took one (the construction timestamp before any); the fps an
\* invocation reports is 1/(its end timestamp - the previous end timestamp),
\* and its inference time is (its end - its start) * 1000.
C4_LastEndAndFps ==
    /\ \A s \in Constructed : stages[s].last_time = lastEnd[s]
    /\ \A f \in Frames : f.pc \in {"forward", "call"} => TimingOf(f)

\* the second call on a stage has reported, a while after the first
C4_Witness ==
    /\ delivered = 2 /\ Len(stack) = 1
    /\ Top.pc = "forward"
    /\ Top.prev_end = 1 /\ Top.end_time = 2
    /\ Top.text_lines.fps = 100

---------------------------------------------------------------------------

\* C8: on the first call of a stage instance the fps computation
\* 1/(end - last_end) is well-defined, last_end being the construction
\* timestamp, and the call does not fail because of it.
C8_FirstFpsWellDefined ==
    (delivered = 1 /\ Len(stack) = 1 /\ Top.engine_call = "returned") =>
        /\ exc # "ZeroDivisionError"
        /\ Top.prev_end < Top.end_time

---------------------------------------------------------------------------

RECURSIVE Walk(_, _)
\* the element n hops of next_element after s, or None if the chain ends first
Walk(s, n) ==
    IF s = None \/ n = 0 THEN s ELSE Walk(stages[s].next_element, n - 1)

\* following next_element from s never ends
Cyclic(s) == Walk(s, NumStages) # None

\* set_next accepts any element, whatever chain results
NoCycleCheck ==
    Assembling => \A s \in Constructed, t \in Constructed : ENABLED SetNext(s, t)

\* a call on a cyclic chain does not return normally, and a stage of such a
\* chain that has produced its output calls on
CyclicNeverReturns ==
    /\ outcome.result = "returned" => ~Cyclic(outcome.entry)
    /\ (stack # <<>> /\ exc = None /\ Top.pc = "forward" /\ Cyclic(stack[1].stage)) =>
           ENABLED Forward /\ ~ENABLED Return

\* a call on a chain that ends visits no stage twice and is never refused for
\* its depth (the chain being no longer than the recursion limit)
AcyclicVisitsOnce ==
    (outcome.delivery >= 1 /\ ~Cyclic(outcome.entry)) =>
        /\ \A i, j \in 1..Len(stack) : i # j => stack[i].stage # stack[j].stage
        /\ NumStages <= RecursionLimit =>
              exc # "RecursionError" /\ outcome.result # "RecursionError"

\* C9: set_next checks nothing, so a chain may lead back to itself; a call on
\* such a chain goes from stage to stage and never returns normally; a call
\* on a chain that ends visits each stage at most once.
C9_NoCycleCheck == NoCycleCheck /\ CyclicNeverReturns /\ AcyclicVisitsOnce

\* a stage wired to itself was called and the interpreter ended the recursion
C9_Witness ==
    /\ "A" \in Constructed
    /\ stages["A"].next_element = "A"
    /\ outcome.entry = "A"
    /\ outcome.result = "RecursionError"

---------------------------------------------------------------------------

OnlyLastTimeDiffers ==
    /\ DOMAIN stages' = DOMAIN stages
    /\ \A s \in DOMAIN stages :
          [stages'[s] EXCEPT !.last_time = stages[s].last_time] = stages[s]

\* the steps of a call whose engine invocation raises: the call is entered,
\* the engine raises, the exception leaves the frames
StepOfFailingCall ==
    \/ Len(stack') > Len(stack)
    \/ stack' # <<>> /\ stack'[Len(stack')].engine_call = "raised"
    \/ exc = "EngineInvocationError"

\* the engine returns and line 49 divides
EngineReturned ==
    /\ stack # <<>> /\ Top.pc = "detect"
    /\ stack' # <<>> /\ stack'[Len(stack')].pc = "forward"

\* C10: a call whose engine invocation raises leaves every attribute of the
\* stage as it was, so the next successful call measures its fps from the
\* end timestamp of the last call whose engine returned (or from
\* construction); while samples are processed, last_time is the only
\* attribute that changes.
C10_FailedCallLeavesState ==
    [][ /\ (stack # <<>> \/ stack' # <<>>) => OnlyLastTimeDiffers
        /\ StepOfFailingCall => stages' = stages /\ lastEnd' = lastEnd
        /\ EngineReturned =>
              /\ stages[Top.stage].last_time = lastEnd[Top.stage]
              /\ Nearest(stack'[Len(stack')].text_lines.fps, 1,
                         stack'[Len(stack')].end_time - lastEnd[Top.stage]) ]_vars

\* the first call ended at time 1; the second call's engine raised later and
\* last_time is still 1
C10_Witness ==
    /\ delivered = 2 /\ stack = <<>>
    /\ outcome.result = "EngineInvocationError"
    /\ clock = 2
    /\ stages["A"].last_time = 1 /\ stages["A"].next_element = None
    /\ Cardinality(Constructed) = 1

====
